---- MODULE Spec2Model ----
(***************************************************************************)
(* Master-mode I2C (TWI) driver, src/I2C.cpp.                              *)
(*                                                                         *)
(* The driver is single-threaded and polled.  A read/write entry point is  *)
(* a fixed order of the primitives _start, _sendAddress, _sendByte,        *)
(* _receiveByte and _stop; each primitive writes the control register,     *)
(* spins on a completion condition and then looks at the status register.  *)
(* The peripheral and the millisecond clock are the environment: the       *)
(* peripheral may raise its completion condition or not, and may report    *)
(* any status code; the clock may advance between two loop iterations.     *)
(***************************************************************************)
EXTENDS Integers, Sequences, FiniteSets, TLC

(***************************************************************************)
(* Bounds of the model.                                                    *)
(***************************************************************************)
\* capacity of the internal receive buffer data[] (I2C.h, not in src/)
MAX_BUFFER_SIZE == 2
\* the largest timeout, in ms, that timeOut() is called with
MaxTimeOut == 1

\* the clock is followed until every configured timeout has expired
MaxElapsed == MaxTimeOut

(***************************************************************************)
(* TWI status codes, values of TWI_STATUS (I2C.h, not in src/).            *)
(***************************************************************************)
START == 8
REPEATED_START == 16
MT_SLA_ACK == 24
MT_SLA_NACK == 32
MT_DATA_ACK == 40
MT_DATA_NACK == 48
LOST_ARBTRTN == 56
MR_SLA_ACK == 64
MR_SLA_NACK == 72
MR_DATA_ACK == 80
MR_DATA_NACK == 88

\* the statuses the peripheral reports once a phase has completed: for each
\* primitive, every status the primitive tests for and one it does not
\* (_stop() reads no status: one value stands for whatever TWSR holds)
StatusSet(op) ==
    CASE op = "start" -> {START, REPEATED_START, LOST_ARBTRTN, MT_SLA_ACK}
      [] op = "addr"  -> {MT_SLA_ACK, MR_SLA_ACK, MT_SLA_NACK, MR_SLA_NACK,
                          LOST_ARBTRTN}
      [] op = "send"  -> {MT_DATA_ACK, MT_DATA_NACK, LOST_ARBTRTN}
      [] op = "recv"  -> {MR_DATA_ACK, MR_DATA_NACK, LOST_ARBTRTN, MR_SLA_ACK}
      [] op = "stop"  -> {MT_DATA_ACK}

\* the mode argument of start_error_handler and send_addr_error_handler
START_MODE == 0
REPEATED_START_MODE == 1
TRANSMIT_MODE == 0
RECEIVER_MODE == 1

\* address byte: 7-bit address and the direction bit (I2C.h)
SLA_W(address) == (address * 2) % 256
SLA_R(address) == (address * 2 + 1) % 256

min(a, b) == IF a < b THEN a ELSE b

(***************************************************************************)
(* Inputs of the calls.                                                    *)
(***************************************************************************)
AddressSet == {80}
RegSet == {16}
Reg16Set == {4660}
DataByteSet == {171}
PayloadSet == {<<>>, <<18, 52>>}
NumberBytesSet == {0, 1, MAX_BUFFER_SIZE + 1}
TimeOutSet == {0, MaxTimeOut}

\* scan(): timeOut(80)
ScanTimeOut == 80

\* scan(): for (uint8_t s = 0; s <= 0x7F; s++).  The last address scanned is
\* a bound here, as the size of the buffer is: the loop does the same at
\* every address.
LastAddress == 7

\* a uint16_t, uint32_t or uint64_t argument, as its 16-bit limbs: limb 0 is
\* the least significant.  0x1234 and 0x00FF; 0x12345678 and 0xFEDCBA98;
\* 0x0123456789ABCDEF.
Limbs(s) == [j \in 0 .. (Len(s) - 1) |-> s[j + 1]]
Data16Set == {Limbs(<< 4660 >>), Limbs(<< 255 >>)}
Data32Set == {Limbs(<< 22136, 4660 >>), Limbs(<< 47768, 65244 >>)}
Data64Set == {Limbs(<< 52719, 35243, 17767, 291 >>)}

\* the byte the addressed device puts in TWDR for the k-th receive of a call
RxByte(address, k) == (address + k) % 256

(***************************************************************************)
(* Error code mapping, src/I2C.cpp lines 1026-1078.                        *)
(***************************************************************************)
start_error_handler(returnStatus, mode) ==
    IF returnStatus = 1
    THEN CASE mode = START_MODE -> 1
           [] mode = REPEATED_START_MODE -> 4
           [] OTHER -> returnStatus
    ELSE returnStatus

\* a stop_error_handler that passes the primitive's 1 through
stop_error_handler_unmapped(returnStatus) == returnStatus

stop_error_handler(returnStatus) ==
    IF returnStatus = 1 THEN 7 ELSE returnStatus

receive_error_handler(returnStatus) ==
    IF returnStatus = 1 THEN 6 ELSE returnStatus

send_error_handler(returnStatus) ==
    IF returnStatus = 1 THEN 3 ELSE returnStatus

send_addr_error_handler(returnStatus, mode) ==
    IF returnStatus = 1
    THEN CASE mode = TRANSMIT_MODE -> 2
           [] mode = RECEIVER_MODE -> 5
           [] OTHER -> returnStatus
    ELSE returnStatus

(***************************************************************************)
(* The primitives after their wait loop: what the status s leads to.       *)
(* ret is the value the primitive returns; then is what it does to the     *)
(* peripheral before it returns: nothing, a nested _stop(), or lockUp().   *)
(***************************************************************************)
Outcome(ret, then) == [ret |-> ret, then |-> then]

_start(s) ==
    IF s = START \/ s = REPEATED_START THEN Outcome(0, "none")
    ELSE IF s = LOST_ARBTRTN THEN Outcome(s, "lockUp")
    ELSE Outcome(s, "none")

\* a _sendAddress that takes a NACK for a fault of the bus: lockUp(), no stop
_sendAddress_nackLocksUp(s) ==
    IF s = MT_SLA_ACK \/ s = MR_SLA_ACK THEN Outcome(0, "none")
    ELSE Outcome(s, "lockUp")

_sendAddress(s) ==
    IF s = MT_SLA_ACK \/ s = MR_SLA_ACK THEN Outcome(0, "none")
    ELSE IF s = MT_SLA_NACK \/ s = MR_SLA_NACK THEN Outcome(s, "stop")
    ELSE Outcome(s, "lockUp")

_sendByte(s) ==
    IF s = MT_DATA_ACK THEN Outcome(0, "none")
    ELSE IF s = MT_DATA_NACK THEN Outcome(s, "stop")
    ELSE Outcome(s, "lockUp")

_receiveByte(ack, s) ==
    IF s = LOST_ARBTRTN THEN Outcome(s, "lockUp")
    ELSE IF ack # 0 /\ s = MR_DATA_ACK THEN Outcome(0, "none")
    ELSE IF ack = 0 /\ s = MR_DATA_NACK THEN Outcome(0, "none")
    ELSE Outcome(s, "none")

\* _stop() has no status to look at: it returns 0 once TWSTO has cleared
_stop == Outcome(0, "none")

(***************************************************************************)
(* The transaction sequencer.  An entry point is the sequence of its       *)
(* primitive calls.  Each step names the primitive (op) and its argument   *)
(* (arg: the byte sent, or the ack flag of a receive), the error handler   *)
(* the entry point passes a non-zero return value to (h, mode), whether    *)
(* the entry point returns the handler's value (returns), and where a      *)
(* received byte is stored (store, at loop index i).                       *)
(***************************************************************************)
Step(op, arg, h, mode, returns, store, i) ==
    [op |-> op, arg |-> arg, h |-> h, mode |-> mode,
     returns |-> returns, store |-> store, i |-> i]

\* returnStatus = _start(); if (returnStatus){return start_error_handler(returnStatus, mode);}
StartStep(mode) == Step("start", 0, "start", mode, TRUE, "none", 0)
\* returnStatus = _sendAddress(sla); if (returnStatus){return send_addr_error_handler(returnStatus, mode);}
AddrStep(sla, mode) == Step("addr", sla, "addr", mode, TRUE, "none", 0)
\* returnStatus = _sendAddress(sla); if (returnStatus){send_addr_error_handler(returnStatus, mode);}
AddrStepNoReturn(sla, mode) == Step("addr", sla, "addr", mode, FALSE, "none", 0)
\* returnStatus = _sendByte(b); if (returnStatus){return send_error_handler(returnStatus);}
SendStep(b) == Step("send", b % 256, "send", 0, TRUE, "none", 0)
\* returnStatus = _sendByte(b); if (returnStatus){return send_addr_error_handler(returnStatus, RECEIVER_MODE);}
SendStepAddrHandler(b) == Step("send", b % 256, "addr", RECEIVER_MODE, TRUE, "none", 0)
\* returnStatus = _stop(); if (returnStatus){return stop_error_handler(returnStatus);}
StopStep == Step("stop", 0, "stop", 0, TRUE, "none", 0)

\* a receive loop that acknowledges every byte, the last one too
ReceiveLoop_allAck(numberBytes, store) ==
    [k \in 1 .. numberBytes |-> Step("recv", 1, "recv", 0, TRUE, store, k - 1)]

\* for (i = 0; i < numberBytes; i++) { _receiveByte(i == nack ? 0 : 1) ...; store TWDR }
ReceiveLoop(numberBytes, store) ==
    LET nack == numberBytes - 1
    IN  [k \in 1 .. numberBytes |->
            Step("recv", IF (k - 1) = nack THEN 0 ELSE 1, "recv", 0, TRUE, store, k - 1)]

\* a send loop that starts from the end of the array
SendLoop_lastFirst(bytes, numberBytes) ==
    [k \in 1 .. numberBytes |-> SendStep(bytes[numberBytes + 1 - k])]

\* for (i = 0; i < numberBytes; i++) { _sendByte(data[i]) ... }
SendLoop(bytes, numberBytes) ==
    [k \in 1 .. numberBytes |-> SendStep(bytes[k])]

\* a read that takes a count of 0 as it is
AtLeastOne_asGiven(numberBytes) == numberBytes

\* if (numberBytes == 0) numberBytes++;
AtLeastOne(numberBytes) == IF numberBytes = 0 THEN numberBytes + 1 ELSE numberBytes

\* an internal-buffer read that leaves out the min()
Capped_noMin(numberBytes) == IF numberBytes = 0 THEN 1 ELSE numberBytes

\* numberBytes = min(numberBytes, MAX_BUFFER_SIZE); if (numberBytes == 0) numberBytes++;
Capped(numberBytes) == AtLeastOne(min(numberBytes, MAX_BUFFER_SIZE))

\* write(uint8_t address, uint8_t registerAddress)
write_r(address, registerAddress) ==
    << StartStep(START_MODE),
       AddrStepNoReturn(SLA_W(address), TRANSMIT_MODE),
       SendStep(registerAddress),
       StopStep >>

\* write(uint8_t address, uint8_t registerAddress, uint8_t data)
write_r_d(address, registerAddress, d) ==
    << StartStep(START_MODE),
       AddrStepNoReturn(SLA_W(address), TRANSMIT_MODE),
       SendStep(registerAddress),
       SendStep(d),
       StopStep >>

\* write(uint8_t address, uint8_t registerAddress, const uint8_t *data, uint8_t numberBytes)
write_r_buf(address, registerAddress, bytes, numberBytes) ==
    << StartStep(START_MODE),
       AddrStepNoReturn(SLA_W(address), TRANSMIT_MODE),
       SendStep(registerAddress) >>
    \o SendLoop(bytes, numberBytes)
    \o << StopStep >>

\* (data >> sh) & 0xFF, for sh a multiple of 8
ShiftByte(data, sh) == (data[sh \div 16] \div (2 ^ (sh % 16))) % 256

\* writeBytes[] of the overloads that take a 16-, 32- or 64-bit value
writeBytes2(data) == << ShiftByte(data, 8), ShiftByte(data, 0) >>
writeBytes4(data) ==
    << ShiftByte(data, 24), ShiftByte(data, 16), ShiftByte(data, 8),
       ShiftByte(data, 0) >>
writeBytes8(data) ==
    << ShiftByte(data, 56), ShiftByte(data, 48), ShiftByte(data, 40),
       ShiftByte(data, 32), ShiftByte(data, 24), ShiftByte(data, 16),
       ShiftByte(data, 8), ShiftByte(data, 0) >>

\* a 32-bit write that fills writeBytes[] from the low end
write_r_u32_lowFirst(address, registerAddress, data) ==
    write_r_buf(address, registerAddress,
                << ShiftByte(data, 0), ShiftByte(data, 8), ShiftByte(data, 16),
                   ShiftByte(data, 24) >>, 4)

\* write(uint8_t address, uint8_t registerAddress, uint16_t data)
write_r_u16(address, registerAddress, data) ==
    write_r_buf(address, registerAddress, writeBytes2(data), 2)

\* write(uint8_t address, uint8_t registerAddress, uint32_t data)
write_r_u32(address, registerAddress, data) ==
    write_r_buf(address, registerAddress, writeBytes4(data), 4)

\* write(uint8_t address, uint8_t registerAddress, uint64_t data)
write_r_u64(address, registerAddress, data) ==
    write_r_buf(address, registerAddress, writeBytes8(data), 8)

\* read(uint8_t address, uint8_t numberBytes)
read_n(address, numberBytes) ==
    << StartStep(START_MODE),
       AddrStep(SLA_R(address), RECEIVER_MODE) >>
    \o ReceiveLoop(Capped(numberBytes), "data")
    \o << StopStep >>

\* a register read that closes the register write with a stop condition
read_r_n_stopBetween(address, registerAddress, numberBytes) ==
    << StartStep(START_MODE),
       AddrStep(SLA_W(address), TRANSMIT_MODE),
       SendStepAddrHandler(registerAddress),
       StopStep,
       StartStep(START_MODE),
       AddrStep(SLA_R(address), RECEIVER_MODE) >>
    \o ReceiveLoop(Capped(numberBytes), "data")
    \o << StopStep >>

\* read(uint8_t address, uint8_t registerAddress, uint8_t numberBytes)
read_r_n(address, registerAddress, numberBytes) ==
    << StartStep(START_MODE),
       AddrStep(SLA_W(address), TRANSMIT_MODE),
       SendStepAddrHandler(registerAddress),
       StartStep(REPEATED_START_MODE),
       AddrStep(SLA_R(address), RECEIVER_MODE) >>
    \o ReceiveLoop(Capped(numberBytes), "data")
    \o << StopStep >>

\* a caller-buffer read whose loop stores into the internal buffer
read_n_buf_storesInternal(address, numberBytes) ==
    << StartStep(START_MODE),
       AddrStep(SLA_R(address), RECEIVER_MODE) >>
    \o ReceiveLoop(AtLeastOne(numberBytes), "data")
    \o << StopStep >>

\* read(uint8_t address, uint8_t numberBytes, uint8_t *dataBuffer)
\* read(uint8_t address, uint16_t numberBytes, uint8_t *dataBuffer)
read_n_buf(address, numberBytes) ==
    << StartStep(START_MODE),
       AddrStep(SLA_R(address), RECEIVER_MODE) >>
    \o ReceiveLoop(AtLeastOne(numberBytes), "dataBuffer")
    \o << StopStep >>

\* read(uint8_t address, uint8_t registerAddress, uint8_t numberBytes, uint8_t *dataBuffer)
\* read(uint8_t address, uint8_t registerAddress, uint16_t numberBytes, uint8_t *dataBuffer)
read_r_n_buf(address, registerAddress, numberBytes) ==
    << StartStep(START_MODE),
       AddrStep(SLA_W(address), TRANSMIT_MODE),
       SendStepAddrHandler(registerAddress),
       StartStep(REPEATED_START_MODE),
       AddrStep(SLA_R(address), RECEIVER_MODE) >>
    \o ReceiveLoop(AtLeastOne(numberBytes), "dataBuffer")
    \o << StopStep >>

\* write16(uint8_t address, uint16_t registerAddress)
write16_r(address, registerAddress) ==
    << StartStep(START_MODE),
       AddrStep(SLA_W(address), TRANSMIT_MODE),
       SendStep(registerAddress \div 256),
       SendStep(registerAddress % 256),
       StopStep >>

\* write16(uint8_t address, uint16_t registerAddress, uint8_t data)
write16_r_d(address, registerAddress, d) ==
    << StartStep(START_MODE),
       AddrStep(SLA_W(address), TRANSMIT_MODE),
       SendStep(registerAddress \div 256),
       SendStep(registerAddress % 256),
       SendStep(d),
       StopStep >>

\* write16(uint8_t address, uint16_t registerAddress, const uint8_t *data, uint8_t numberBytes)
write16_r_buf(address, registerAddress, bytes, numberBytes) ==
    << StartStep(START_MODE),
       AddrStep(SLA_W(address), RECEIVER_MODE),
       SendStep(registerAddress \div 256),
       SendStep(registerAddress % 256) >>
    \o SendLoop(bytes, numberBytes)
    \o << StopStep >>

\* write16(uint8_t address, uint16_t registerAddress, uint16_t data)
write16_r_u16(address, registerAddress, data) ==
    write16_r_buf(address, registerAddress, writeBytes2(data), 2)

\* write16(uint8_t address, uint16_t registerAddress, uint32_t data)
write16_r_u32(address, registerAddress, data) ==
    write16_r_buf(address, registerAddress, writeBytes4(data), 4)

\* write16(uint8_t address, uint16_t registerAddress, uint64_t data)
write16_r_u64(address, registerAddress, data) ==
    write16_r_buf(address, registerAddress, writeBytes8(data), 8)

\* a 16-bit register read that sends the low register byte first
read16_r_n_lowFirst(address, registerAddress, numberBytes) ==
    << StartStep(START_MODE),
       AddrStep(SLA_W(address), TRANSMIT_MODE),
       SendStep(registerAddress % 256),
       SendStep(registerAddress \div 256),
       StartStep(REPEATED_START_MODE),
       AddrStep(SLA_R(address), RECEIVER_MODE) >>
    \o ReceiveLoop(Capped(numberBytes), "data")
    \o << StopStep >>

\* read16(uint8_t address, uint16_t registerAddress, uint8_t numberBytes)
read16_r_n(address, registerAddress, numberBytes) ==
    << StartStep(START_MODE),
       AddrStep(SLA_W(address), TRANSMIT_MODE),
       SendStep(registerAddress \div 256),
       SendStep(registerAddress % 256),
       StartStep(REPEATED_START_MODE),
       AddrStep(SLA_R(address), RECEIVER_MODE) >>
    \o ReceiveLoop(Capped(numberBytes), "data")
    \o << StopStep >>

\* read16(uint8_t address, uint16_t registerAddress, uint8_t numberBytes, uint8_t *dataBuffer)
read16_r_n_buf(address, registerAddress, numberBytes) ==
    << StartStep(START_MODE),
       AddrStep(SLA_W(address), TRANSMIT_MODE),
       SendStep(registerAddress \div 256),
       SendStep(registerAddress % 256),
       StartStep(START_MODE),
       AddrStep(SLA_R(address), RECEIVER_MODE) >>
    \o ReceiveLoop(AtLeastOne(numberBytes), "dataBuffer")
    \o << StopStep >>

\* a primitive call of scan(), which looks at the return value itself
ScanStep(op, arg) == Step(op, arg, "none", 0, FALSE, "none", 0)

\* a scan() that addresses every device for reading
scan_s_addressRead(s) ==
    << ScanStep("start", 0), ScanStep("addr", SLA_R(s)), ScanStep("stop", 0) >>

\* the body of the loop of scan(): _start(), _sendAddress(SLA_W(s)) unless
\* the start failed, _stop() unless one of them timed out
scan_s(s) ==
    << ScanStep("start", 0), ScanStep("addr", SLA_W(s)), ScanStep("stop", 0) >>

\* the value an entry point returns when the primitive of step st returned r # 0
ErrorHandler(st, r) ==
    CASE st.h = "start" -> start_error_handler(r, st.mode)
      [] st.h = "addr"  -> send_addr_error_handler(r, st.mode)
      [] st.h = "send"  -> send_error_handler(r)
      [] st.h = "recv"  -> receive_error_handler(r)
      [] st.h = "stop"  -> stop_error_handler(r)

\* what a primitive does once its wait loop has ended with status s
PrimitiveOutcome(st, s) ==
    CASE st.op = "start" -> _start(s)
      [] st.op = "addr"  -> _sendAddress(s)
      [] st.op = "send"  -> _sendByte(s)
      [] st.op = "recv"  -> _receiveByte(st.arg, s)
      [] st.op = "stop"  -> _stop

(***************************************************************************)
(* State.                                                                  *)
(***************************************************************************)
VARIABLES
    timeOutDelay,    \* I2C::timeOutDelay, ms; 0 disables the timeout
    bytesAvailable,  \* I2C::bytesAvailable
    bufferIndex,     \* I2C::bufferIndex
    totalBytes,      \* I2C::totalBytes
    data,            \* the internal receive buffer data[MAX_BUFFER_SIZE]
    dataBuffer,      \* the caller's buffer of the call, as filled so far
    TWDR,            \* the peripheral's data register
    call,            \* the entry point being executed (or executed last)
    pc,              \* the step of the entry point being executed
    phase,           \* "idle", "ready" (before a primitive), "wait" (in a
                     \* primitive's wait loop), "stopwait" (in the wait loop
                     \* of the _stop() a primitive calls after a NACK)
    flag,            \* the wait loop's condition has been met by the
                     \* peripheral (TWINT set; TWSTO cleared for a stop)
    elapsed,         \* millis() - startingTime of the running wait loop
                     \* (0 when no primitive is running)
    bufferedStatus,  \* the status a primitive keeps across its _stop()
    bus,             \* the actions of the call on the peripheral, in order
    prims,           \* the primitives the entry point has called, with the
                     \* value each returned
    result           \* the value the last call returned

vars == << timeOutDelay, bytesAvailable, bufferIndex, totalBytes, data,
           dataBuffer, TWDR, call, pc, phase, flag, elapsed, bufferedStatus,
           bus, prims, result >>

\* no call has returned yet
NoResult == 0 - 1

Call(ep, address, reg, n, bytes) ==
    [ep |-> ep, address |-> address, reg |-> reg, n |-> n, bytes |-> bytes]

\* a call of an overload that takes a 16-, 32- or 64-bit value
ScalarCall(ep, address, reg, value) ==
    [ep |-> ep, address |-> address, reg |-> reg, n |-> 0, bytes |-> << >>,
     value |-> value]

\* scan() at address s, with its locals; found tells whether the iteration
\* has printed "Found device at address - 0x<s>"
ScanCall(s, tempTime, totalDevicesFound, found) ==
    [ep |-> "scan", address |-> s, reg |-> 0, n |-> 0, bytes |-> << >>,
     tempTime |-> tempTime, totalDevicesFound |-> totalDevicesFound,
     found |-> found]

\* the primitive calls of the entry point c.  The overloads that take int
\* arguments or a string only convert their arguments and call one of
\* these.
Prog(c) ==
    CASE c.ep = "write_r"        -> write_r(c.address, c.reg)
      [] c.ep = "write_r_d"      -> write_r_d(c.address, c.reg, c.bytes[1])
      [] c.ep = "write_r_buf"    -> write_r_buf(c.address, c.reg, c.bytes, c.n)
      [] c.ep = "read_n"         -> read_n(c.address, c.n)
      [] c.ep = "read_r_n"       -> read_r_n(c.address, c.reg, c.n)
      [] c.ep = "read_n_buf"     -> read_n_buf(c.address, c.n)
      [] c.ep = "read_r_n_buf"   -> read_r_n_buf(c.address, c.reg, c.n)
      [] c.ep = "write16_r"      -> write16_r(c.address, c.reg)
      [] c.ep = "write16_r_d"    -> write16_r_d(c.address, c.reg, c.bytes[1])
      [] c.ep = "write16_r_buf"  -> write16_r_buf(c.address, c.reg, c.bytes, c.n)
      [] c.ep = "read16_r_n"     -> read16_r_n(c.address, c.reg, c.n)
      [] c.ep = "read16_r_n_buf" -> read16_r_n_buf(c.address, c.reg, c.n)
      [] c.ep = "write_r_u16"    -> write_r_u16(c.address, c.reg, c.value)
      [] c.ep = "write_r_u32"    -> write_r_u32(c.address, c.reg, c.value)
      [] c.ep = "write_r_u64"    -> write_r_u64(c.address, c.reg, c.value)
      [] c.ep = "write16_r_u16"  -> write16_r_u16(c.address, c.reg, c.value)
      [] c.ep = "write16_r_u32"  -> write16_r_u32(c.address, c.reg, c.value)
      [] c.ep = "write16_r_u64"  -> write16_r_u64(c.address, c.reg, c.value)
      [] c.ep = "scan"           -> scan_s(c.address)
      [] OTHER                   -> << >>

\* the entry points that read into the internal buffer start by emptying it
InternalRead == {"read_n", "read_r_n", "read16_r_n"}

Init ==
    /\ timeOutDelay = 0
    /\ bytesAvailable = 0
    /\ bufferIndex = 0
    /\ totalBytes = 0
    /\ data = [j \in 0 .. (MAX_BUFFER_SIZE - 1) |-> 0]
    /\ dataBuffer = << >>
    /\ TWDR = 0
    /\ call = Call("none", 0, 0, 0, << >>)
    /\ pc = 0
    /\ phase = "idle"
    /\ flag = FALSE
    /\ elapsed = 0
    /\ bufferedStatus = 0
    /\ bus = << >>
    /\ prims = << >>
    /\ result = NoResult

(***************************************************************************)
(* The primitives' effects on the peripheral.                              *)
(***************************************************************************)
Hw(act, arg) == [act |-> act, arg |-> arg]

\* the write to TWCR that starts the phase of step st
Issue(st) ==
    CASE st.op = "start" -> Hw("START", 0)
      [] st.op = "addr"  -> Hw("ADDR", st.arg)
      [] st.op = "send"  -> Hw("SEND", st.arg)
      [] st.op = "recv"  -> Hw("RECV", st.arg)
      [] st.op = "stop"  -> Hw("STOP", 0)

\* lockUp(): TWCR = 0; TWCR = _BV(TWEN) | _BV(TWEA);
lockUp(b) == Append(b, Hw("LOCKUP", 0))

\* the body of every wait loop:
\*   if (!timeOutDelay) continue;
\*   if ((millis() - startingTime) >= timeOutDelay) { lockUp(); return (1); }
\* a wait loop that leaves out "if (!timeOutDelay) continue;"
timedOut_unguarded(delay, ms) == ms >= delay

\* a wait loop whose guard is inverted: "if (timeOutDelay) continue;"
timedOut_inverted(delay, ms) == delay = 0 /\ ms >= delay

timedOut(delay, ms) == delay # 0 /\ ms >= delay

(***************************************************************************)
(* Actions.                                                                *)
(***************************************************************************)
\* an internal-buffer read that leaves out bytesAvailable = 0; bufferIndex = 0
Begin_keepsBuffer(c) ==
    /\ phase = "idle"
    /\ call' = c
    /\ pc' = 1
    /\ phase' = "ready"
    /\ bus' = << >>
    /\ prims' = << >>
    /\ result' = NoResult
    /\ dataBuffer' = << >>
    /\ UNCHANGED << bytesAvailable, bufferIndex >>
    /\ UNCHANGED << timeOutDelay, totalBytes, data, TWDR, flag, elapsed,
                    bufferedStatus >>

\* an entry point is called: nothing has been done on the bus yet
Begin(c) ==
    /\ phase = "idle"
    /\ call' = c
    /\ pc' = 1
    /\ phase' = "ready"
    /\ bus' = << >>
    /\ prims' = << >>
    /\ result' = NoResult
    /\ dataBuffer' = << >>
    /\ IF c.ep \in InternalRead
       THEN bytesAvailable' = 0 /\ bufferIndex' = 0
       ELSE UNCHANGED << bytesAvailable, bufferIndex >>
    /\ UNCHANGED << timeOutDelay, totalBytes, data, TWDR, flag, elapsed,
                    bufferedStatus >>

Write_r ==
    \E a \in AddressSet, r \in RegSet :
        Begin(Call("write_r", a, r, 0, << >>))

Write_r_d ==
    \E a \in AddressSet, r \in RegSet, d \in DataByteSet :
        Begin(Call("write_r_d", a, r, 0, << d >>))

Write_r_buf ==
    \E a \in AddressSet, r \in RegSet, b \in PayloadSet :
        Begin(Call("write_r_buf", a, r, Len(b), b))

Read_n ==
    \E a \in AddressSet, n \in NumberBytesSet :
        Begin(Call("read_n", a, 0, n, << >>))

Read_r_n ==
    \E a \in AddressSet, r \in RegSet, n \in NumberBytesSet :
        Begin(Call("read_r_n", a, r, n, << >>))

Read_n_buf ==
    \E a \in AddressSet, n \in NumberBytesSet :
        Begin(Call("read_n_buf", a, 0, n, << >>))

Read_r_n_buf ==
    \E a \in AddressSet, r \in RegSet, n \in NumberBytesSet :
        Begin(Call("read_r_n_buf", a, r, n, << >>))

Write16_r ==
    \E a \in AddressSet, r \in Reg16Set :
        Begin(Call("write16_r", a, r, 0, << >>))

Write16_r_d ==
    \E a \in AddressSet, r \in Reg16Set, d \in DataByteSet :
        Begin(Call("write16_r_d", a, r, 0, << d >>))

Write16_r_buf ==
    \E a \in AddressSet, r \in Reg16Set, b \in PayloadSet :
        Begin(Call("write16_r_buf", a, r, Len(b), b))

Read16_r_n ==
    \E a \in AddressSet, r \in Reg16Set, n \in NumberBytesSet :
        Begin(Call("read16_r_n", a, r, n, << >>))

Read16_r_n_buf ==
    \E a \in AddressSet, r \in Reg16Set, n \in NumberBytesSet :
        Begin(Call("read16_r_n_buf", a, r, n, << >>))

Write_r_u16 ==
    \E a \in AddressSet, r \in RegSet, v \in Data16Set :
        Begin(ScalarCall("write_r_u16", a, r, v))

Write_r_u32 ==
    \E a \in AddressSet, r \in RegSet, v \in Data32Set :
        Begin(ScalarCall("write_r_u32", a, r, v))

Write_r_u64 ==
    \E a \in AddressSet, r \in RegSet, v \in Data64Set :
        Begin(ScalarCall("write_r_u64", a, r, v))

Write16_r_u16 ==
    \E a \in AddressSet, r \in Reg16Set, v \in Data16Set :
        Begin(ScalarCall("write16_r_u16", a, r, v))

Write16_r_u32 ==
    \E a \in AddressSet, r \in Reg16Set, v \in Data32Set :
        Begin(ScalarCall("write16_r_u32", a, r, v))

Write16_r_u64 ==
    \E a \in AddressSet, r \in Reg16Set, v \in Data64Set :
        Begin(ScalarCall("write16_r_u64", a, r, v))

\* scan() up to the loop: tempTime = timeOutDelay; timeOut(80);
\* totalDevicesFound = 0; s = 0
scan ==
    /\ phase = "idle"
    /\ call' = ScanCall(0, timeOutDelay, 0, FALSE)
    /\ timeOutDelay' = ScanTimeOut
    /\ pc' = 1
    /\ phase' = "ready"
    /\ bus' = << >>
    /\ prims' = << >>
    /\ result' = NoResult
    /\ dataBuffer' = << >>
    /\ UNCHANGED << bytesAvailable, bufferIndex, totalBytes, data, TWDR, flag,
                    elapsed, bufferedStatus >>

\* a call that is no transaction: the log of the last transaction is dropped
Plain(ep) ==
    /\ phase = "idle"
    /\ call' = Call(ep, 0, 0, 0, << >>)
    /\ bus' = << >>
    /\ prims' = << >>
    /\ dataBuffer' = << >>
    /\ UNCHANGED << TWDR, pc, phase, flag, elapsed, bufferedStatus >>

\* timeOut(uint16_t _timeOut)
timeOut ==
    \E t \in TimeOutSet :
        /\ Plain("timeOut")
        /\ timeOutDelay' = t
        /\ result' = NoResult
        /\ UNCHANGED << bytesAvailable, bufferIndex, totalBytes, data >>

\* available()
available ==
    /\ Plain("available")
    /\ result' = bytesAvailable
    /\ UNCHANGED << timeOutDelay, bytesAvailable, bufferIndex, totalBytes, data >>

\* what a read of data[] outside the array may yield
OutOfBounds == {0, 255}

\* a receive() that hands out the newest stored byte first
receive_newestFirst ==
    LET idx == (bytesAvailable - 1) % 256
    IN  /\ Plain("receive")
        /\ IF bytesAvailable = 0
           THEN /\ bufferIndex' = 0
                /\ result' = 0
                /\ UNCHANGED bytesAvailable
           ELSE /\ bufferIndex' = idx
                /\ bytesAvailable' = bytesAvailable - 1
                /\ result' = data[idx]
        /\ UNCHANGED << timeOutDelay, totalBytes, data >>

\* a receive() without the test for an empty buffer: the uint8_t count wraps
receive_unchecked ==
    LET idx == (totalBytes - bytesAvailable) % 256
    IN  /\ Plain("receive")
        /\ bufferIndex' = idx
        /\ bytesAvailable' = (bytesAvailable - 1) % 256
        /\ \E v \in (IF idx \in DOMAIN data THEN {data[idx]} ELSE OutOfBounds) :
               result' = v
        /\ UNCHANGED << timeOutDelay, totalBytes, data >>

\* receive()
receive ==
    LET idx == (totalBytes - bytesAvailable) % 256
    IN  /\ Plain("receive")
        /\ IF bytesAvailable = 0
           THEN /\ bufferIndex' = 0
                /\ result' = 0
                /\ UNCHANGED bytesAvailable
           ELSE /\ bufferIndex' = idx
                /\ bytesAvailable' = bytesAvailable - 1
                /\ \E v \in (IF idx \in DOMAIN data THEN {data[idx]} ELSE OutOfBounds) :
                       result' = v
        /\ UNCHANGED << timeOutDelay, totalBytes, data >>

\* the running step of the running entry point
Cur == Prog(call)[pc]

\* a primitive is entered: startingTime = millis(), the write to TWCR (and to
\* TWDR before it, for an address or a data byte)
Invoke ==
    /\ phase = "ready"
    /\ bus' = Append(bus, Issue(Cur))
    /\ TWDR' = IF Cur.op \in {"addr", "send"} THEN Cur.arg ELSE TWDR
    /\ elapsed' = 0
    /\ flag' = FALSE
    /\ phase' = "wait"
    /\ UNCHANGED << timeOutDelay, bytesAvailable, bufferIndex, totalBytes, data,
                    dataBuffer, call, pc, bufferedStatus, prims, result >>

\* the peripheral completes the phase: TWINT is set, or TWSTO is cleared
HwDone ==
    /\ phase \in {"wait", "stopwait"}
    /\ ~flag
    /\ flag' = TRUE
    /\ UNCHANGED << timeOutDelay, bytesAvailable, bufferIndex, totalBytes, data,
                    dataBuffer, TWDR, call, pc, phase, elapsed, bufferedStatus,
                    bus, prims, result >>

\* the clock advances while a wait loop spins: by a millisecond, or, when
\* the timeout lies beyond the milliseconds that are counted one by one, up
\* to the timeout, the loop's test being the same all the way there
Tick ==
    /\ phase \in {"wait", "stopwait"}
    /\ ~flag
    /\ elapsed < MaxElapsed \/ elapsed < timeOutDelay
    /\ elapsed' = IF timeOutDelay > MaxElapsed THEN timeOutDelay ELSE elapsed + 1
    /\ UNCHANGED << timeOutDelay, bytesAvailable, bufferIndex, totalBytes, data,
                    dataBuffer, TWDR, call, pc, phase, flag, bufferedStatus,
                    bus, prims, result >>

\* a read loop that leaves out totalBytes = i + 1
Sequencer_totalBytesStale(st, r, tw) ==
    /\ prims' = Append(prims, [op |-> st.op, arg |-> st.arg, ret |-> r])
    /\ elapsed' = 0
    /\ flag' = FALSE
    /\ bufferedStatus' = 0
    /\ IF r # 0 /\ st.returns
       THEN /\ result' = ErrorHandler(st, r)
            /\ phase' = "idle"
            /\ pc' = 0
            /\ UNCHANGED << data, bytesAvailable, totalBytes, dataBuffer >>
       ELSE /\ CASE st.store = "data" ->
                      /\ data' = [data EXCEPT ![st.i] = tw]
                      /\ bytesAvailable' = st.i + 1
                      /\ UNCHANGED << totalBytes, dataBuffer >>
                 [] st.store = "dataBuffer" ->
                      /\ dataBuffer' = Append(dataBuffer, tw)
                      /\ UNCHANGED << data, bytesAvailable, totalBytes >>
                 [] OTHER ->
                      UNCHANGED << data, bytesAvailable, totalBytes, dataBuffer >>
            /\ IF pc = Len(Prog(call))
               THEN result' = r /\ phase' = "idle" /\ pc' = 0
               ELSE result' = result /\ phase' = "ready" /\ pc' = pc + 1

\* the entry point after the primitive of step st has returned r, the data
\* register holding tw
Sequencer(st, r, tw) ==
    /\ prims' = Append(prims, [op |-> st.op, arg |-> st.arg, ret |-> r])
    /\ elapsed' = 0
    /\ flag' = FALSE
    /\ bufferedStatus' = 0
    /\ IF r # 0 /\ st.returns
       THEN /\ result' = ErrorHandler(st, r)
            /\ phase' = "idle"
            /\ pc' = 0
            /\ UNCHANGED << data, bytesAvailable, totalBytes, dataBuffer >>
       ELSE /\ CASE st.store = "data" ->
                      /\ data' = [data EXCEPT ![st.i] = tw]
                      /\ bytesAvailable' = st.i + 1
                      /\ totalBytes' = st.i + 1
                      /\ UNCHANGED dataBuffer
                 [] st.store = "dataBuffer" ->
                      /\ dataBuffer' = Append(dataBuffer, tw)
                      /\ UNCHANGED << data, bytesAvailable, totalBytes >>
                 [] OTHER ->
                      UNCHANGED << data, bytesAvailable, totalBytes, dataBuffer >>
            /\ IF pc = Len(Prog(call))
               THEN result' = r /\ phase' = "idle" /\ pc' = 0
               ELSE result' = result /\ phase' = "ready" /\ pc' = pc + 1

\* scan() whose abort on a timeout returns without timeOutDelay = tempTime
ScanSequencer_abortKeepsTimeOut(st, r) ==
    /\ prims' = Append(prims, [op |-> st.op, arg |-> st.arg, ret |-> r])
    /\ elapsed' = 0
    /\ flag' = FALSE
    /\ bufferedStatus' = 0
    /\ UNCHANGED << data, bytesAvailable, totalBytes, dataBuffer, result >>
    /\ CASE st.op = "stop" ->
               /\ phase' = "loop"
               /\ UNCHANGED << pc, call, timeOutDelay >>
         [] st.op # "stop" /\ r = 1 ->
               /\ phase' = "idle"
               /\ pc' = 0
               /\ UNCHANGED << call, timeOutDelay >>
         [] st.op = "start" /\ r = 0 ->
               /\ phase' = "ready"
               /\ pc' = 2
               /\ UNCHANGED << call, timeOutDelay >>
         [] st.op = "addr" /\ r = 0 ->
               /\ call' = [call EXCEPT !.totalDevicesFound = (@ + 1) % 256,
                                       !.found = TRUE]
               /\ phase' = "ready"
               /\ pc' = 3
               /\ UNCHANGED timeOutDelay
         [] OTHER ->
               /\ phase' = "ready"
               /\ pc' = 3
               /\ UNCHANGED << call, timeOutDelay >>

\* scan() after the primitive of step st has returned r:
\*   returnStatus = _start();
\*   if (!returnStatus) returnStatus = _sendAddress(SLA_W(s));
\*   if (returnStatus) { if (returnStatus == 1) { timeOutDelay = tempTime; return; } }
\*   else { print s; totalDevicesFound++; }
\*   _stop();
ScanSequencer(st, r) ==
    /\ prims' = Append(prims, [op |-> st.op, arg |-> st.arg, ret |-> r])
    /\ elapsed' = 0
    /\ flag' = FALSE
    /\ bufferedStatus' = 0
    /\ UNCHANGED << data, bytesAvailable, totalBytes, dataBuffer, result >>
    /\ CASE st.op = "stop" ->
               /\ phase' = "loop"
               /\ UNCHANGED << pc, call, timeOutDelay >>
         [] st.op # "stop" /\ r = 1 ->
               /\ timeOutDelay' = call.tempTime
               /\ phase' = "idle"
               /\ pc' = 0
               /\ UNCHANGED call
         [] st.op = "start" /\ r = 0 ->
               /\ phase' = "ready"
               /\ pc' = 2
               /\ UNCHANGED << call, timeOutDelay >>
         [] st.op = "addr" /\ r = 0 ->
               /\ call' = [call EXCEPT !.totalDevicesFound = (@ + 1) % 256,
                                       !.found = TRUE]
               /\ phase' = "ready"
               /\ pc' = 3
               /\ UNCHANGED timeOutDelay
         [] OTHER ->
               /\ phase' = "ready"
               /\ pc' = 3
               /\ UNCHANGED << call, timeOutDelay >>

\* the end of an iteration of scan(): s++, s <= 0x7F; after the last address
\* timeOutDelay = tempTime
ScanLoop ==
    /\ phase = "loop"
    /\ IF call.address + 1 <= LastAddress
       THEN /\ call' = [call EXCEPT !.address = @ + 1, !.found = FALSE]
            /\ pc' = 1
            /\ phase' = "ready"
            /\ bus' = << >>
            /\ prims' = << >>
            /\ UNCHANGED timeOutDelay
       ELSE /\ call' = [call EXCEPT !.address = @ + 1]
            /\ timeOutDelay' = call.tempTime
            /\ pc' = 0
            /\ phase' = "idle"
            /\ UNCHANGED << bus, prims >>
    /\ UNCHANGED << bytesAvailable, bufferIndex, totalBytes, data, dataBuffer,
                    TWDR, flag, elapsed, bufferedStatus, result >>

\* the caller of the primitive of step st takes its return value r
Return(st, r, tw) ==
    IF call.ep = "scan"
    THEN ScanSequencer(st, r)
    ELSE Sequencer(st, r, tw) /\ UNCHANGED << timeOutDelay, call >>

\* a wait loop finds the timeout expired: lockUp(); return (1);
TimeOut ==
    /\ phase = "wait"
    /\ ~flag
    /\ timedOut(timeOutDelay, elapsed)
    /\ bus' = lockUp(bus)
    /\ Return(Cur, 1, TWDR)
    /\ UNCHANGED << bufferIndex, TWDR >>

\* a wait loop ends because its condition is met; the primitive looks at the
\* status s, and a receive finds the device's byte in TWDR
Complete ==
    /\ phase = "wait"
    /\ flag
    /\ \E s \in StatusSet(Cur.op) :
         LET o  == PrimitiveOutcome(Cur, s)
             tw == IF Cur.op = "recv" THEN RxByte(call.address, Cur.i) ELSE TWDR
         IN  /\ TWDR' = tw
             /\ IF o.then = "stop"
                THEN /\ bus' = Append(bus, Hw("STOP", 0))
                     /\ bufferedStatus' = o.ret
                     /\ phase' = "stopwait"
                     /\ elapsed' = 0
                     /\ flag' = FALSE
                     /\ UNCHANGED << data, bytesAvailable, totalBytes, dataBuffer,
                                     pc, prims, result, timeOutDelay, call >>
                ELSE /\ bus' = IF o.then = "lockUp" THEN lockUp(bus) ELSE bus
                     /\ Return(Cur, o.ret, tw)
    /\ UNCHANGED bufferIndex

\* the _stop() called after a NACK returns 0: return (bufferedStatus);
StopDone ==
    /\ phase = "stopwait"
    /\ flag
    /\ Return(Cur, bufferedStatus, TWDR)
    /\ UNCHANGED << bufferIndex, TWDR, bus >>

\* the _stop() called after a NACK times out: lockUp(), its return value 1
\* is dropped, return (bufferedStatus);
StopTimeOut ==
    /\ phase = "stopwait"
    /\ ~flag
    /\ timedOut(timeOutDelay, elapsed)
    /\ bus' = lockUp(bus)
    /\ Return(Cur, bufferedStatus, TWDR)
    /\ UNCHANGED << bufferIndex, TWDR >>

Next ==
    \/ Write_r \/ Write_r_d \/ Write_r_buf
    \/ Read_n \/ Read_r_n \/ Read_n_buf \/ Read_r_n_buf
    \/ Write16_r \/ Write16_r_d \/ Write16_r_buf
    \/ Read16_r_n \/ Read16_r_n_buf
    \/ timeOut \/ available \/ receive
    \/ Invoke \/ HwDone \/ Tick \/ TimeOut \/ Complete \/ StopDone \/ StopTimeOut

Spec == Init /\ [][Next]_vars

\* the processor keeps executing the call and the clock keeps advancing; the
\* peripheral is under no obligation
Run == Invoke \/ TimeOut \/ Complete \/ StopDone \/ StopTimeOut

LiveSpec == Spec /\ WF_vars(Run) /\ WF_vars(Tick)

\* the write entry points alone, the overloads for 16-, 32- and 64-bit values
\* among them
WriteNext ==
    \/ Write_r \/ Write_r_d \/ Write_r_buf
    \/ Write_r_u16 \/ Write_r_u32 \/ Write_r_u64
    \/ Write16_r \/ Write16_r_d \/ Write16_r_buf
    \/ Write16_r_u16 \/ Write16_r_u32 \/ Write16_r_u64
    \/ timeOut
    \/ Invoke \/ HwDone \/ Tick \/ TimeOut \/ Complete \/ StopDone \/ StopTimeOut

WriteSpec == Init /\ [][WriteNext]_vars

\* scan() alone, under every timeout the caller may have set
ScanNext ==
    \/ timeOut \/ scan \/ ScanLoop
    \/ Invoke \/ HwDone \/ Tick \/ TimeOut \/ Complete \/ StopDone \/ StopTimeOut

ScanSpec == Init /\ [][ScanNext]_vars

TypeOK ==
    /\ timeOutDelay \in TimeOutSet \cup {ScanTimeOut}
    /\ bytesAvailable \in 0 .. 255
    /\ totalBytes \in 0 .. 255
    /\ bufferIndex \in 0 .. 255
    /\ phase \in {"idle", "ready", "wait", "stopwait", "loop"}
    /\ flag \in BOOLEAN
    /\ elapsed \in (0 .. MaxElapsed) \cup {ScanTimeOut}
    /\ result \in {NoResult} \cup 0 .. 255

(***************************************************************************)
(* Properties.                                                             *)
(***************************************************************************)
\* a read/write entry point has returned
Returned == phase = "idle" /\ prims # << >>

\* a primitive is in its wait loop and the peripheral has not completed
Spinning == phase \in {"wait", "stopwait"} /\ ~flag

\* the primitives of the call that returned a non-zero value
Failed == {i \in 1 .. Len(prims) : prims[i].ret # 0}

\* the first of them, when there is one
FirstFailed == CHOOSE i \in Failed : \A j \in Failed : i <= j

\* the last action of the call on the peripheral
LastHw == bus[Len(bus)]

\* some stop condition of the call ended in its timeout: the reset follows
\* the stop condition at once
StopTimedOut ==
    \E j \in 1 .. (Len(bus) - 1) :
        bus[j].act = "STOP" /\ bus[j + 1].act = "LOCKUP"

\* the _stop() the entry point itself calls, last of its sequence, timed out
FinalStopTimedOut ==
    /\ prims # << >>
    /\ prims[Len(prims)].op = "stop"
    /\ prims[Len(prims)].ret = 1

\* C1: once a primitive has returned a non-zero value the entry point
\* invokes no further primitive: a failed primitive is the last one of the
\* call, and no primitive is running after it.
C1_ShortCircuit ==
    \A i \in Failed : i = Len(prims) /\ phase \in {"idle", "ready"}

\* C2: whenever a read/write entry point returns, the last action of the
\* call on the peripheral was a stop condition or a lockup-recovery reset.
C2_BusLeftIdle ==
    Returned => LastHw.act \in {"STOP", "LOCKUP"}

\* C3: a read/write entry point returns 0 only if every primitive of its
\* sequence returned 0.
C3_ZeroOnlyOnSuccess ==
    (Returned /\ result = 0) => Failed = {}

\* C4: when the first failing primitive of a call returns a raw status
\* s >= 8, the entry point returns exactly s.
C4_RawStatusPassedThrough ==
    (Returned /\ Failed # {} /\ prims[FirstFailed].ret >= 8)
        => result = prims[FirstFailed].ret

\* C5: a timeout in the address phase makes the call return 2 when the
\* address was sent with write direction and 5 when it was sent with read
\* direction.
C5_AddressTimeoutCode ==
    Returned =>
        \A i \in 1 .. Len(prims) :
            (prims[i].op = "addr" /\ prims[i].ret = 1)
                => result = (IF prims[i].arg % 2 = 0 THEN 2 ELSE 5)

\* C6: a timeout while sending a register-address byte or a data byte makes
\* the call return 3.
C6_SendTimeoutCode ==
    Returned =>
        \A i \in 1 .. Len(prims) :
            (prims[i].op = "send" /\ prims[i].ret = 1) => result = 3

\* C7: a timeout on the first start condition of a call makes it return 1,
\* a timeout on the repeated start makes it return 4.
C7_StartTimeoutCode ==
    Returned =>
        \A i \in 1 .. Len(prims) :
            (prims[i].op = "start" /\ prims[i].ret = 1)
                => result = (IF i = 1 THEN 1 ELSE 4)

\* C8 as stated: with a non-zero timeout, a stalled stop condition issued
\* during a call, the final one or the one issued after a NACK, makes the
\* call return 7.
C8_AnyStalledStopReturns7 ==
    (Returned /\ timeOutDelay # 0 /\ StopTimedOut) => result = 7

\* C8 as amended: with a non-zero timeout, a stalled stop condition that the
\* entry point itself issues at the end of its sequence makes the call
\* return 7.
C8_FinalStalledStopReturns7 ==
    (Returned /\ timeOutDelay # 0 /\ FinalStopTimedOut) => result = 7

\* a call has returned 7 after its final stop condition timed out
C8_Witness ==
    Returned /\ timeOutDelay # 0 /\ FinalStopTimedOut /\ result = 7

\* C9: with a non-zero timeout and an advancing clock, every read/write
\* entry point that has been called eventually returns, and with it every
\* primitive it has entered, whatever the peripheral does.
C9_CallsReturn ==
    (phase # "idle" /\ timeOutDelay # 0) ~> (phase = "idle")

\* a call has returned after a wait loop gave up on a stalled peripheral
C9_Witness ==
    /\ Returned
    /\ timeOutDelay # 0
    /\ \E i \in 1 .. Len(prims) : prims[i].ret = 1
    /\ LastHw.act = "LOCKUP"

\* C10: with the timeout at 0, a primitive whose completion flag stays
\* stalled does not return and performs no lockup recovery: as long as the
\* flag is not raised, every step leaves the primitive in its wait loop and
\* adds nothing to the actions on the peripheral.
C10_NoTimeoutBlocksForever ==
    [][(Spinning /\ timeOutDelay = 0 /\ ~flag')
          => (phase' = phase /\ pc' = pc /\ prims' = prims /\ bus' = bus)]_vars

\* the clock has advanced as far as it is followed and the primitive is
\* still waiting
C10_Witness ==
    Spinning /\ timeOutDelay = 0 /\ elapsed = MaxElapsed

(***************************************************************************)
(* Transaction shape, byte order and the internal buffer.                  *)
(***************************************************************************)

\* the entry points that read, into the internal buffer or the caller's
ReadEps ==
    {"read_n", "read_r_n", "read16_r_n", "read_n_buf", "read_r_n_buf",
     "read16_r_n_buf"}

\* the entry points that take a 16-bit register address
Reg16Eps ==
    {"write16_r", "write16_r_d", "write16_r_buf", "read16_r_n",
     "read16_r_n_buf", "write16_r_u16", "write16_r_u32", "write16_r_u64"}

\* the entry points that take an 8-bit register address
Reg8Eps ==
    {"write_r", "write_r_d", "write_r_buf", "read_r_n", "read_r_n_buf",
     "write_r_u16", "write_r_u32", "write_r_u64"}

\* the receive operations and the byte transmissions of the call, in order
Recvs == SelectSeq(bus, LAMBDA h : h.act = "RECV")
Sends == SelectSeq(bus, LAMBDA h : h.act = "SEND")

\* the number of bytes a read asked for n bytes is to receive: a request
\* for 0 counts as 1, and the internal buffer holds MAX_BUFFER_SIZE at most
Requested(c) ==
    LET n1 == IF c.n = 0 THEN 1 ELSE c.n
    IN  IF c.ep \in InternalRead /\ n1 > MAX_BUFFER_SIZE
        THEN MAX_BUFFER_SIZE
        ELSE n1

\* the register address as it goes out on the bus, high byte first
RegisterBytes(c) ==
    IF c.ep \in Reg16Eps
    THEN << Hw("SEND", c.reg \div 256), Hw("SEND", c.reg % 256) >>
    ELSE << Hw("SEND", c.reg) >>

\* N receive operations, every one acknowledged but the last
AckedReceives(N) ==
    [k \in 1 .. N |-> Hw("RECV", IF k < N THEN 1 ELSE 0)]

\* C12: a register-addressed read into the internal buffer whose primitives
\* all succeed performs exactly start, address (write), the register
\* byte(s), repeated start, address (read), N receive operations and stop,
\* with no stop condition before the last one; it returns 0 and N bytes are
\* available right after it.
C12_RegisterReadSequence ==
    (Returned /\ call.ep \in {"read_r_n", "read16_r_n"} /\ Failed = {})
        => /\ bus = << Hw("START", 0), Hw("ADDR", SLA_W(call.address)) >>
                    \o RegisterBytes(call)
                    \o << Hw("START", 0), Hw("ADDR", SLA_R(call.address)) >>
                    \o AckedReceives(Requested(call))
                    \o << Hw("STOP", 0) >>
           /\ result = 0
           /\ bytesAvailable = Requested(call)

\* a register read of more than one byte has returned 0
C12_Witness ==
    /\ Returned
    /\ call.ep = "read_r_n"
    /\ Failed = {}
    /\ Len(Recvs) >= 2
    /\ bytesAvailable = Len(Recvs)

\* C13: in every read, the k-th receive operation (k = 0 .. N-1) is issued
\* with acknowledgment exactly when k < N-1, so that only the last byte is
\* not acknowledged, and a read of 1 byte issues one receive without
\* acknowledgment.
C13_AckAllButLast ==
    (call.ep \in ReadEps)
        => /\ Len(Recvs) <= Requested(call)
           /\ \A k \in 0 .. (Len(Recvs) - 1) :
                  (Recvs[k + 1].arg = 1) <=> (k < Requested(call) - 1)

\* a read of two bytes or more has received them all
C13_Witness ==
    /\ Returned
    /\ call.ep \in ReadEps
    /\ result = 0
    /\ Len(Recvs) >= 2
    /\ Recvs[1].arg = 1
    /\ Recvs[Len(Recvs)].arg = 0

\* C15: the register address goes out high byte first: an 8-bit register
\* address as one byte, a 16-bit register address r as (r >> 8) and then
\* (r & 0xFF), in every write16 and read16 variant; they are the first bytes
\* transmitted after the address.
C15_RegisterBigEndian ==
    /\ (call.ep \in Reg8Eps /\ Len(Sends) >= 1)
           => Sends[1].arg = call.reg
    /\ (call.ep \in Reg16Eps /\ Len(Sends) >= 1)
           => Sends[1].arg = (call.reg \div 256) % 256
    /\ (call.ep \in Reg16Eps /\ Len(Sends) >= 2)
           => Sends[2].arg = call.reg % 256

\* a read16 has sent both bytes of a register address whose bytes differ
C15_Witness ==
    /\ Returned
    /\ call.ep = "read16_r_n"
    /\ result = 0
    /\ Len(Sends) = 2
    /\ Sends[1].arg # Sends[2].arg

\* C16: bytesAvailable never exceeds MAX_BUFFER_SIZE, and an internal-buffer
\* read asked for more than MAX_BUFFER_SIZE bytes receives and stores
\* exactly MAX_BUFFER_SIZE of them, none past the end of the buffer.
C16_BufferCapped ==
    /\ bytesAvailable <= MAX_BUFFER_SIZE
    /\ (call.ep \in InternalRead) => Len(Recvs) <= MAX_BUFFER_SIZE
    /\ (Returned /\ call.ep \in InternalRead /\ call.n > MAX_BUFFER_SIZE
           /\ result = 0)
           => /\ Len(Recvs) = MAX_BUFFER_SIZE
              /\ bytesAvailable = MAX_BUFFER_SIZE
              /\ totalBytes = MAX_BUFFER_SIZE
              /\ \A i \in 0 .. (MAX_BUFFER_SIZE - 1) :
                     data[i] = RxByte(call.address, i)

\* an internal read asked for more than the buffer holds has returned 0
C16_Witness ==
    /\ Returned
    /\ call.ep \in InternalRead
    /\ call.n > MAX_BUFFER_SIZE
    /\ result = 0
    /\ bytesAvailable = MAX_BUFFER_SIZE

\* the step is a call of receive() (or leaves everything as it is)
ReceiveCalled == phase = "idle" /\ call'.ep = "receive"

\* the internal-buffer read that has just returned stored every byte it
\* received, in the order of their arrival, and every one is available
ReadFilled ==
    (Returned /\ call.ep \in InternalRead /\ result = 0)
        => /\ bytesAvailable = Len(Recvs)
           /\ totalBytes = Len(Recvs)
           /\ \A i \in 0 .. (Len(Recvs) - 1) :
                  data[i] = RxByte(call.address, i)

\* receive() on a buffer that is not empty returns the oldest byte not yet
\* handed out and takes it off the count
ReceiveTakesOldest ==
    (ReceiveCalled /\ bytesAvailable > 0)
        => /\ bytesAvailable <= totalBytes
           /\ result' = data[totalBytes - bytesAvailable]
           /\ bytesAvailable' = bytesAvailable - 1
           /\ data' = data
           /\ totalBytes' = totalBytes

\* C17: after an internal-buffer read that stored b0 .. b(N-1), N calls of
\* receive() in a row return b0 .. b(N-1) in that order and available()
\* goes down by one with every call, from N to 0.
C17_ReceiveIsFifo == [] ReadFilled /\ [][ReceiveTakesOldest]_vars

\* the second of two stored bytes has been handed out; the buffer is empty
C17_Witness ==
    /\ call.ep = "receive"
    /\ totalBytes >= 2
    /\ bytesAvailable = 0
    /\ bufferIndex = totalBytes - 1
    /\ result = data[bufferIndex]
    /\ data[0] # data[bufferIndex]

\* C18: receive() on an empty buffer returns 0, leaves available() at 0
\* without underflow and bufferIndex at 0, and changes nothing else, so
\* that calling it again gives the same result and the same state.
C18_ReceiveOnEmpty ==
    [][(ReceiveCalled /\ bytesAvailable = 0)
          => /\ result' = 0
             /\ bytesAvailable' = 0
             /\ bufferIndex' = 0
             /\ UNCHANGED << totalBytes, data, timeOutDelay >>]_vars

\* receive() has been called on a buffer that a read had filled and that
\* had been emptied since
C18_Witness ==
    /\ call.ep = "receive"
    /\ totalBytes > 0
    /\ bytesAvailable = 0
    /\ bufferIndex = 0
    /\ result = 0
    /\ data[0] # 0

\* C19: every read entry point called with a byte count of 0 behaves as if
\* 1 byte had been asked for: it issues one receive operation, without
\* acknowledgment, and stores one byte; after a successful internal-buffer
\* read, available() is 1.
C19_ZeroCountReadsOne ==
    (call.ep \in ReadEps /\ call.n = 0)
        => /\ Len(Recvs) <= 1
           /\ (Returned /\ result = 0)
                  => /\ Recvs = << Hw("RECV", 0) >>
                     /\ IF call.ep \in InternalRead
                        THEN /\ bytesAvailable = 1
                             /\ totalBytes = 1
                             /\ data[0] = RxByte(call.address, 0)
                        ELSE dataBuffer = << RxByte(call.address, 0) >>

\* a caller-buffer read asked for 0 bytes has returned 0
C19_Witness ==
    /\ Returned
    /\ call.ep \in {"read_n_buf", "read_r_n_buf", "read16_r_n_buf"}
    /\ call.n = 0
    /\ result = 0
    /\ Len(dataBuffer) = 1

(***************************************************************************)
(* Writes: the sequence of primitives and the order of the data bytes.     *)
(***************************************************************************)

\* the number of bytes of the value each of these overloads takes
ScalarWidth(ep) ==
    CASE ep \in {"write_r_u16", "write16_r_u16"} -> 2
      [] ep \in {"write_r_u32", "write16_r_u32"} -> 4
      [] ep \in {"write_r_u64", "write16_r_u64"} -> 8

ScalarEps ==
    {"write_r_u16", "write_r_u32", "write_r_u64",
     "write16_r_u16", "write16_r_u32", "write16_r_u64"}

\* the writes to a device with 8-bit register addresses
Write8Eps ==
    {"write_r", "write_r_d", "write_r_buf",
     "write_r_u16", "write_r_u32", "write_r_u64"}

\* digit j of the value v in base 256, digit 0 being the least significant
RECURSIVE DigitOf(_, _)
DigitOf(x, j) == IF j = 0 THEN x % 256 ELSE DigitOf(x \div 256, j - 1)
Digit(v, j) == DigitOf(v[j \div 2], j % 2)

\* the big-endian representation of v in n bytes
BigEndian(v, n) == [i \in 1 .. n |-> Digit(v, n - i)]

\* the data bytes the caller handed to the write, in the caller's order
DataBytes(c) ==
    CASE c.ep \in ScalarEps                      -> BigEndian(c.value, ScalarWidth(c.ep))
      [] c.ep \in {"write_r", "write16_r"}       -> << >>
      [] c.ep \in {"write_r_d", "write16_r_d"}   -> << c.bytes[1] >>
      [] OTHER                                   -> SubSeq(c.bytes, 1, c.n)

\* the byte transmissions that carry v[1], v[2], ...
SendsOf(v) == [i \in 1 .. Len(v) |-> Hw("SEND", v[i])]

\* C11: a write to an 8-bit register whose primitives all succeed performs
\* exactly start, address (write), the register byte, every data byte in
\* the caller's order and stop, with nothing in between, and returns 0;
\* for a 16-bit value the data bytes are its high byte and then its low
\* byte.
C11_WriteSequence ==
    (Returned /\ call.ep \in Write8Eps /\ Failed = {})
        => /\ bus = << Hw("START", 0), Hw("ADDR", SLA_W(call.address)),
                       Hw("SEND", call.reg) >>
                    \o SendsOf(DataBytes(call))
                    \o << Hw("STOP", 0) >>
           /\ result = 0

\* 0x1234 has been written to register 0x10 of device 0x50: the bytes sent
\* after address 0xA0 are 0x10, 0x12, 0x34
C11_Witness ==
    /\ Returned
    /\ call.ep = "write_r_u16"
    /\ call.address = 80
    /\ call.reg = 16
    /\ call.value = Limbs(<< 4660 >>)
    /\ result = 0
    /\ bus = << Hw("START", 0), Hw("ADDR", 160), Hw("SEND", 16),
                Hw("SEND", 18), Hw("SEND", 52), Hw("STOP", 0) >>

\* C14: for every 16-, 32- and 64-bit value passed to write or write16, the
\* data bytes transmitted after the register byte(s) are the big-endian
\* representation of the value, 2, 4 or 8 bytes, most significant first.
\* While the call is under way or after it failed, the bytes transmitted so
\* far are the first bytes of that representation.
C14_ScalarBigEndian ==
    (call.ep \in ScalarEps)
        => LET regBytes == IF call.ep \in Reg16Eps THEN 2 ELSE 1
               sent     == [i \in 1 .. (Len(Sends) - regBytes) |->
                                Sends[regBytes + i].arg]
               expected == BigEndian(call.value, ScalarWidth(call.ep))
           IN  /\ Len(sent) <= Len(expected)
               /\ sent = SubSeq(expected, 1, Len(sent))
               /\ (Returned /\ result = 0) => sent = expected

\* a 64-bit value has gone out whole, and its first and last bytes differ
C14_Witness ==
    /\ Returned
    /\ call.ep \in {"write_r_u64", "write16_r_u64"}
    /\ result = 0
    /\ Len(Sends) >= 9
    /\ Sends[Len(Sends)].arg # Sends[Len(Sends) - 7].arg

(***************************************************************************)
(* scan().                                                                 *)
(***************************************************************************)

\* the step enters scan(), and the step is one of scan() under way
ScanCalled == phase = "idle" /\ phase' # "idle" /\ call'.ep = "scan"
ScanStepped == phase # "idle" /\ call.ep = "scan"

\* scan() has returned from inside the loop, a primitive having timed out
ScanAborted ==
    /\ phase = "idle"
    /\ call.ep = "scan"
    /\ call.address <= LastAddress
    /\ prims # << >>
    /\ prims[Len(prims)].ret = 1

\* scan() has returned after the last address
ScanCompleted ==
    phase = "idle" /\ call.ep = "scan" /\ call.address = LastAddress + 1

\* C20: scan() runs its primitives with timeOutDelay at 80 and, however it
\* returns (after the last address, or from inside the loop when a
\* primitive times out), leaves timeOutDelay at the value it had when
\* scan() was called, whatever that value, 0 included, and however many
\* devices have acknowledged.
C20_ScanRestoresTimeOut ==
    [][/\ ScanCalled
          => (timeOutDelay' = ScanTimeOut /\ call'.tempTime = timeOutDelay)
       /\ ScanStepped
          => /\ call'.ep = "scan"
             /\ call'.tempTime = call.tempTime
             /\ timeOutDelay = ScanTimeOut
             /\ timeOutDelay' =
                    IF phase' = "idle" THEN call.tempTime ELSE ScanTimeOut]_vars

\* scan() was called with the timeout disabled, found a device and then
\* gave up on a timeout: the timeout is disabled again
C20_Witness ==
    /\ ScanAborted
    /\ call.totalDevicesFound >= 1
    /\ call.tempTime = 0
    /\ timeOutDelay = 0

(***************************************************************************)
(* NACK and timeout inside a call.                                         *)
(***************************************************************************)

\* the NACK statuses of the address phase and of the transmission of a byte
NackOf(op) ==
    CASE op = "addr" -> {MT_SLA_NACK, MR_SLA_NACK}
      [] op = "send" -> {MT_DATA_NACK}
      [] OTHER       -> {}

\* the step is the return of a primitive, and of an address phase or the
\* transmission of a byte with the NACK status
PrimReturned == Len(prims') = Len(prims) + 1
NackReturned ==
    /\ PrimReturned
    /\ prims'[Len(prims')].ret \in NackOf(prims'[Len(prims')].op)

\* the phase the primitive that returns had started on the peripheral
Phase(p) == Hw(IF p.op = "addr" THEN "ADDR" ELSE "SEND", p.arg)

\* C21 as claimed: when _sendAddress or _sendByte returns a NACK status, what
\* it did on the peripheral is its phase and a stop condition, and no
\* lockup-recovery reset.
C21_NackStopsWithoutReset ==
    [][NackReturned
          => /\ Len(bus') >= 2
             /\ bus'[Len(bus') - 1] = Phase(prims'[Len(prims')])
             /\ bus'[Len(bus')] = Hw("STOP", 0)]_vars

\* C21 as amended: when the address phase or the transmission of a byte
\* completes with a NACK status, the primitive issues a stop condition and
\* returns the status as it read it; the one lockup-recovery reset that can
\* follow is that of the stop condition itself, when the timeout is not 0
\* and the stop condition does not complete.
C21_NackStopsAndReturnsStatus ==
    [][NackReturned
          => /\ phase = "stopwait"
             /\ Len(bus) >= 2
             /\ bus[Len(bus) - 1] = Phase(prims'[Len(prims')])
             /\ bus[Len(bus)] = Hw("STOP", 0)
             /\ prims'[Len(prims')].ret = bufferedStatus
             /\ \/ bus' = bus
                \/ /\ bus' = Append(bus, Hw("LOCKUP", 0))
                   /\ timeOutDelay # 0
                   /\ ~flag]_vars

\* an address phase has returned the NACK status after its stop condition
C21_Witness ==
    /\ Returned
    /\ prims[Len(prims)].op = "addr"
    /\ prims[Len(prims)].ret \in NackOf("addr")
    /\ result = prims[Len(prims)].ret
    /\ Len(bus) >= 2
    /\ bus[Len(bus)] = Hw("STOP", 0)
    /\ bus[Len(bus) - 1].act = "ADDR"

\* the lockup-recovery resets of the call
Lockups == SelectSeq(bus, LAMBDA h : h.act = "LOCKUP")

\* a wait loop of the call has given up: a primitive returned 1, or the
\* stop condition after a NACK timed out
PhaseTimedOut ==
    \/ \E i \in 1 .. Len(prims) : prims[i].ret = 1
    \/ StopTimedOut

\* C22: with a non-zero timeout, a read/write call in which a phase timed
\* out on a stalled completion flag has performed exactly one
\* lockup-recovery reset when it returns.
C22_OneResetPerTimedOutCall ==
    (Returned /\ timeOutDelay # 0 /\ PhaseTimedOut) => Len(Lockups) = 1

\* the same for the entry points that return as soon as a primitive fails
C22_OneResetWhereFailureReturns ==
    (Returned /\ timeOutDelay # 0 /\ PhaseTimedOut
        /\ call.ep \notin {"write_r", "write_r_d", "write_r_buf"})
        => Len(Lockups) = 1

\* the primitives scan() has called for the address it is at, by name
ScanOps == [i \in 1 .. Len(prims) |-> prims[i].op]

\* both the start condition and the address phase for the address scan()
\* is at have returned 0
Acknowledged ==
    /\ Len(prims) >= 2
    /\ prims[1].ret = 0
    /\ prims[2].op = "addr"
    /\ prims[2].ret = 0

\* scan() is done with the address it is at: its _stop() has returned, and
\* either the next address follows or this was the last one
ScanProbed ==
    /\ call.ep = "scan"
    /\ \/ phase = "loop"
       \/ ScanCompleted

\* the address scan() has just finished with
ScanAddress == IF phase = "loop" THEN call.address ELSE LastAddress

\* C23 as claimed: scan() probes every address from 0 to the last one, with
\* start, address (write) and stop for each, and reports an address as
\* found exactly when both the start and the address phase returned 0.
C23_ScanProbesEveryAddress ==
    /\ (call.ep = "scan" /\ phase = "idle") => ScanCompleted
    /\ ScanProbed
           => /\ ScanOps = << "start", "addr", "stop" >>
              /\ prims[2].arg = SLA_W(ScanAddress)
    /\ (call.ep = "scan") => (call.found <=> Acknowledged)

\* what scan() has done for an address when the next one follows
ScanIteration ==
    /\ (call.ep = "scan" /\ phase = "idle")
           => \/ ScanCompleted
              \/ ScanAborted /\ prims[Len(prims)].op \in {"start", "addr"}
    /\ ScanProbed
           => \/ /\ ScanOps = << "start", "addr", "stop" >>
                 /\ prims[1].ret = 0
                 /\ prims[2].arg = SLA_W(ScanAddress)
                 /\ prims[2].ret # 1
              \/ /\ ScanOps = << "start", "stop" >>
                 /\ prims[1].ret \notin {0, 1}
    /\ (call.ep = "scan") => (call.found <=> Acknowledged)

\* scan() starts at address 0 and goes from an address to the next one
ScanAscends ==
    /\ ScanCalled => call'.address = 0
    /\ ScanStepped
           => \/ call'.address = call.address
              \/ phase = "loop" /\ call'.address = call.address + 1

\* C23 as amended: scan() goes through the addresses from 0 upwards, one by
\* one, up to the last one unless a start condition or an address phase
\* times out, which ends the scan at that address.  For each address it
\* performs start, then address (write) if the start returned 0, then stop,
\* and it reports the address as found exactly when both the start and the
\* address phase returned 0.
C23_ScanProbesInOrder == [] ScanIteration /\ [][ScanAscends]_vars

\* scan() has gone through every address and found a device at the last
\* one but not at every one
C23_Witness ==
    /\ ScanCompleted
    /\ call.found
    /\ Acknowledged
    /\ call.totalDevicesFound >= 1
    /\ call.totalDevicesFound <= LastAddress

(***************************************************************************)
(* The internal buffer across reads, failed reads and receive().           *)
(***************************************************************************)

\* the counts of the internal buffer are in order, and the index receive()
\* is to read from lies in the part the last read filled
BufferInOrder ==
    /\ bytesAvailable <= totalBytes
    /\ totalBytes <= MAX_BUFFER_SIZE
    /\ (bytesAvailable > 0)
           => (totalBytes - bytesAvailable) \in 0 .. (totalBytes - 1)

\* receive() on a buffer that is not empty reads inside the filled part
ReceiveInsideFilled ==
    (ReceiveCalled /\ bytesAvailable > 0)
        => /\ bufferIndex' \in 0 .. (totalBytes - 1)
           /\ result' = data[bufferIndex']

\* C24: in every reachable state bytesAvailable <= totalBytes <=
\* MAX_BUFFER_SIZE, and whenever bytesAvailable > 0 the index receive()
\* reads from, totalBytes - bytesAvailable, lies in [0, totalBytes), so that
\* receive() returns no byte from outside the part the last read filled.
C24_BufferIndexInRange == [] BufferInOrder /\ [][ReceiveInsideFilled]_vars

\* an internal read has failed before its first byte, after a read that had
\* filled the buffer
C24_Witness ==
    /\ Returned
    /\ call.ep \in InternalRead
    /\ result # 0
    /\ Recvs = << >>
    /\ bytesAvailable = 0
    /\ totalBytes = MAX_BUFFER_SIZE

\* the receive operations of the call that returned 0
Received ==
    SelectSeq(prims, LAMBDA p : p.op = "recv" /\ p.ret = 0)

\* from its start on, an internal-buffer read counts the bytes it has
\* received itself and nothing else: available() is the number of its
\* receive operations that returned 0, and those bytes are the first of the
\* buffer, in the order of their arrival
ReadCountsReceived ==
    (call.ep \in InternalRead)
        => /\ bytesAvailable = Len(Received)
           /\ bufferIndex = 0
           /\ (Len(Received) > 0) => totalBytes = Len(Received)
           /\ \A i \in 0 .. (Len(Received) - 1) :
                  data[i] = RxByte(call.address, i)

\* C25: an internal-buffer read discards what the buffer held when it
\* starts: if it fails before it received a byte, available() is 0 after
\* it; if it fails after k bytes, available() is k and receive() hands out
\* those k bytes in order; a byte whose receive operation failed is neither
\* stored nor counted.
C25_FailedReadKeepsReceived ==
    [] ReadCountsReceived /\ [][ReceiveTakesOldest]_vars

\* an internal read has failed at its second byte: one byte is available
C25_Witness ==
    /\ Returned
    /\ call.ep \in InternalRead
    /\ result # 0
    /\ Len(Recvs) = 2
    /\ Len(Received) = 1
    /\ bytesAvailable = 1
    /\ totalBytes = 1

\* the write entry points and the reads into a buffer of the caller
FrameEps ==
    {"write_r", "write_r_d", "write_r_buf", "write16_r", "write16_r_d",
     "write16_r_buf", "read_n_buf", "read_r_n_buf", "read16_r_n_buf"}
        \cup ScalarEps

\* the step is one of a call of entry point ep: its first or a later one
StepOf(eps) == call'.ep \in eps /\ (phase # "idle" \/ phase' # "idle")

\* C26: no step of a write or write16 entry point, or of a read or read16
\* into a buffer of the caller, changes data, bytesAvailable, totalBytes or
\* bufferIndex, and no step of any read/write entry point changes
\* timeOutDelay, whether the call succeeds or fails.
C26_BufferAndTimeOutUntouched ==
    [][/\ StepOf(FrameEps)
          => UNCHANGED << data, bytesAvailable, totalBytes, bufferIndex >>
       /\ StepOf(FrameEps \cup InternalRead)
          => UNCHANGED timeOutDelay]_vars

\* a read into the caller's buffer has returned 0 while the internal buffer
\* held one byte not yet handed out, and a timeout was set
C26_Witness ==
    /\ Returned
    /\ call.ep = "read_n_buf"
    /\ result = 0
    /\ Len(dataBuffer) >= 2
    /\ bytesAvailable = 1
    /\ totalBytes = 2
    /\ timeOutDelay # 0

====
